---- MODULE Spec2Model ----
(***************************************************************************)
(* A model of the geopy adapters of this repository:                       *)
(*   - Yandex (geopy/geocoders/yandex.py): geocode, reverse, _parse_json   *)
(*   - GeocodeEarth (geopy/geocoders/geocodeearth.py): the constructor     *)
(*   - GoogleV3's constructor as its tests (test/geocoders/googlev3.py)    *)
(*     describe it.                                                        *)
(*                                                                         *)
(* Python values are tagged records, so that a value of any shape can sit  *)
(* at any place of a response document:                                    *)
(*   [t |-> "null"]                 None / JSON null                       *)
(*   [t |-> "num",  n |-> n]        an int                                 *)
(*   [t |-> "bool", b |-> b]        True or False                          *)
(*   [t |-> "float", ...]           a float, see Finite, Inf, NaN          *)
(*   [t |-> "str",  s |-> <<c..>>]  a string, as its sequence of characters*)
(*   [t |-> "list", l |-> <<x..>>]  a list                                 *)
(*   [t |-> "obj",  o |-> r]        a dict; r maps every key the model     *)
(*                                  knows to a value or to Absent          *)
(* The outcome of a call is R(v) (it returned v) or E(exc, detail) (it     *)
(* raised exc).                                                            *)
(***************************************************************************)
EXTENDS Integers, Sequences, FiniteSets, Bags, TLC

\* ------------------------------------------------------------- bounds
\* The longest Point.pos string of a response entry.
MaxPosLen == 4
\* The most entries of a featureMember list.
MaxPlaces == 3
\* The most calls of one instance that wait for the transport at a time.
MaxInFlight == 2

\* ------------------------------------------------------ Python values
Absent == [t |-> "absent"]
None == [t |-> "null"]
Num(n) == [t |-> "num", n |-> n]
Bool(b) == [t |-> "bool", b |-> b]
Str(s) == [t |-> "str", s |-> s]
List(s) == [t |-> "list", l |-> s]
Obj(r) == [t |-> "obj", o |-> r]

R(v) == [ok |-> TRUE, v |-> v]
E(exc, detail) == [ok |-> FALSE, exc |-> exc, detail |-> detail]

\* The keys a dict of the model holds (those with a value).
Keys(x) == {k \in DOMAIN x.o : x.o[k].t # "absent"}

\* bool(x)
Truthy(x) ==
    CASE x.t = "null" -> FALSE
      [] x.t = "num" -> x.n # 0
      [] x.t = "bool" -> x.b
      [] x.t = "float" -> x.k # "finite" \/ x.digits # <<>>
      [] x.t = "str" -> Len(x.s) > 0
      [] x.t = "list" -> Len(x.l) > 0
      [] x.t = "obj" -> Keys(x) # {}
      [] OTHER -> TRUE

\* x[k] for a string key k
GetItem(x, k) ==
    IF x.t = "obj"
    THEN IF k \in Keys(x) THEN R(x.o[k]) ELSE E("KeyError", Str(<<>>))
    ELSE E("TypeError", Str(<<>>))

\* x.get(k)
Get(x, k) ==
    IF x.t = "obj"
    THEN IF k \in Keys(x) THEN R(x.o[k]) ELSE R(None)
    ELSE E("AttributeError", Str(<<>>))

\* x[0]
First(x) ==
    CASE x.t = "list" ->
           IF Len(x.l) = 0 THEN E("IndexError", Str(<<>>)) ELSE R(x.l[1])
      [] x.t = "str" ->
           IF Len(x.s) = 0 THEN E("IndexError", Str(<<>>)) ELSE R(Str(<<x.s[1]>>))
      [] x.t = "obj" -> E("KeyError", Str(<<>>))
      [] OTHER -> E("TypeError", Str(<<>>))

\* list(x): the items a for loop over x visits. A dict yields its keys, which
\* are strings; their characters play no part in what follows.
Iter(x) ==
    CASE x.t = "list" -> R(x.l)
      [] x.t = "str" -> R([i \in 1..Len(x.s) |-> Str(<<x.s[i]>>)])
      [] x.t = "obj" -> R([i \in 1..Cardinality(Keys(x)) |-> Str(<<"k">>)])
      [] OTHER -> E("TypeError", Str(<<>>))

\* ------------------------------------------------- strings and numbers
\* A character is a string of one character. A character beyond U+00FF is
\* written by its code point, as in "U+0662" (ARABIC-INDIC DIGIT TWO).
ASCIIDigits == <<"0", "1", "2", "3", "4", "5", "6", "7", "8", "9">>

\* The decimal digits of the other scripts, a row for each, zero to nine.
UnicodeDigits ==
    <<
       <<"U+0660", "U+0661", "U+0662", "U+0663", "U+0664", "U+0665", "U+0666", "U+0667", "U+0668", "U+0669">>,
       <<"U+06F0", "U+06F1", "U+06F2", "U+06F3", "U+06F4", "U+06F5", "U+06F6", "U+06F7", "U+06F8", "U+06F9">>,
       <<"U+07C0", "U+07C1", "U+07C2", "U+07C3", "U+07C4", "U+07C5", "U+07C6", "U+07C7", "U+07C8", "U+07C9">>,
       <<"U+0966", "U+0967", "U+0968", "U+0969", "U+096A", "U+096B", "U+096C", "U+096D", "U+096E", "U+096F">>,
       <<"U+09E6", "U+09E7", "U+09E8", "U+09E9", "U+09EA", "U+09EB", "U+09EC", "U+09ED", "U+09EE", "U+09EF">>,
       <<"U+0A66", "U+0A67", "U+0A68", "U+0A69", "U+0A6A", "U+0A6B", "U+0A6C", "U+0A6D", "U+0A6E", "U+0A6F">>,
       <<"U+0AE6", "U+0AE7", "U+0AE8", "U+0AE9", "U+0AEA", "U+0AEB", "U+0AEC", "U+0AED", "U+0AEE", "U+0AEF">>,
       <<"U+0B66", "U+0B67", "U+0B68", "U+0B69", "U+0B6A", "U+0B6B", "U+0B6C", "U+0B6D", "U+0B6E", "U+0B6F">>,
       <<"U+0BE6", "U+0BE7", "U+0BE8", "U+0BE9", "U+0BEA", "U+0BEB", "U+0BEC", "U+0BED", "U+0BEE", "U+0BEF">>,
       <<"U+0C66", "U+0C67", "U+0C68", "U+0C69", "U+0C6A", "U+0C6B", "U+0C6C", "U+0C6D", "U+0C6E", "U+0C6F">>,
       <<"U+0CE6", "U+0CE7", "U+0CE8", "U+0CE9", "U+0CEA", "U+0CEB", "U+0CEC", "U+0CED", "U+0CEE", "U+0CEF">>,
       <<"U+0D66", "U+0D67", "U+0D68", "U+0D69", "U+0D6A", "U+0D6B", "U+0D6C", "U+0D6D", "U+0D6E", "U+0D6F">>,
       <<"U+0DE6", "U+0DE7", "U+0DE8", "U+0DE9", "U+0DEA", "U+0DEB", "U+0DEC", "U+0DED", "U+0DEE", "U+0DEF">>,
       <<"U+0E50", "U+0E51", "U+0E52", "U+0E53", "U+0E54", "U+0E55", "U+0E56", "U+0E57", "U+0E58", "U+0E59">>,
       <<"U+0ED0", "U+0ED1", "U+0ED2", "U+0ED3", "U+0ED4", "U+0ED5", "U+0ED6", "U+0ED7", "U+0ED8", "U+0ED9">>,
       <<"U+0F20", "U+0F21", "U+0F22", "U+0F23", "U+0F24", "U+0F25", "U+0F26", "U+0F27", "U+0F28", "U+0F29">>,
       <<"U+1040", "U+1041", "U+1042", "U+1043", "U+1044", "U+1045", "U+1046", "U+1047", "U+1048", "U+1049">>,
       <<"U+1090", "U+1091", "U+1092", "U+1093", "U+1094", "U+1095", "U+1096", "U+1097", "U+1098", "U+1099">>,
       <<"U+17E0", "U+17E1", "U+17E2", "U+17E3", "U+17E4", "U+17E5", "U+17E6", "U+17E7", "U+17E8", "U+17E9">>,
       <<"U+1810", "U+1811", "U+1812", "U+1813", "U+1814", "U+1815", "U+1816", "U+1817", "U+1818", "U+1819">>,
       <<"U+1946", "U+1947", "U+1948", "U+1949", "U+194A", "U+194B", "U+194C", "U+194D", "U+194E", "U+194F">>,
       <<"U+19D0", "U+19D1", "U+19D2", "U+19D3", "U+19D4", "U+19D5", "U+19D6", "U+19D7", "U+19D8", "U+19D9">>,
       <<"U+1A80", "U+1A81", "U+1A82", "U+1A83", "U+1A84", "U+1A85", "U+1A86", "U+1A87", "U+1A88", "U+1A89">>,
       <<"U+1A90", "U+1A91", "U+1A92", "U+1A93", "U+1A94", "U+1A95", "U+1A96", "U+1A97", "U+1A98", "U+1A99">>,
       <<"U+1B50", "U+1B51", "U+1B52", "U+1B53", "U+1B54", "U+1B55", "U+1B56", "U+1B57", "U+1B58", "U+1B59">>,
       <<"U+1BB0", "U+1BB1", "U+1BB2", "U+1BB3", "U+1BB4", "U+1BB5", "U+1BB6", "U+1BB7", "U+1BB8", "U+1BB9">>,
       <<"U+1C40", "U+1C41", "U+1C42", "U+1C43", "U+1C44", "U+1C45", "U+1C46", "U+1C47", "U+1C48", "U+1C49">>,
       <<"U+1C50", "U+1C51", "U+1C52", "U+1C53", "U+1C54", "U+1C55", "U+1C56", "U+1C57", "U+1C58", "U+1C59">>,
       <<"U+A620", "U+A621", "U+A622", "U+A623", "U+A624", "U+A625", "U+A626", "U+A627", "U+A628", "U+A629">>,
       <<"U+A8D0", "U+A8D1", "U+A8D2", "U+A8D3", "U+A8D4", "U+A8D5", "U+A8D6", "U+A8D7", "U+A8D8", "U+A8D9">>,
       <<"U+A900", "U+A901", "U+A902", "U+A903", "U+A904", "U+A905", "U+A906", "U+A907", "U+A908", "U+A909">>,
       <<"U+A9D0", "U+A9D1", "U+A9D2", "U+A9D3", "U+A9D4", "U+A9D5", "U+A9D6", "U+A9D7", "U+A9D8", "U+A9D9">>,
       <<"U+A9F0", "U+A9F1", "U+A9F2", "U+A9F3", "U+A9F4", "U+A9F5", "U+A9F6", "U+A9F7", "U+A9F8", "U+A9F9">>,
       <<"U+AA50", "U+AA51", "U+AA52", "U+AA53", "U+AA54", "U+AA55", "U+AA56", "U+AA57", "U+AA58", "U+AA59">>,
       <<"U+ABF0", "U+ABF1", "U+ABF2", "U+ABF3", "U+ABF4", "U+ABF5", "U+ABF6", "U+ABF7", "U+ABF8", "U+ABF9">>,
       <<"U+FF10", "U+FF11", "U+FF12", "U+FF13", "U+FF14", "U+FF15", "U+FF16", "U+FF17", "U+FF18", "U+FF19">>,
       <<"U+104A0", "U+104A1", "U+104A2", "U+104A3", "U+104A4", "U+104A5", "U+104A6", "U+104A7", "U+104A8", "U+104A9">>,
       <<"U+10D30", "U+10D31", "U+10D32", "U+10D33", "U+10D34", "U+10D35", "U+10D36", "U+10D37", "U+10D38", "U+10D39">>,
       <<"U+11066", "U+11067", "U+11068", "U+11069", "U+1106A", "U+1106B", "U+1106C", "U+1106D", "U+1106E", "U+1106F">>,
       <<"U+110F0", "U+110F1", "U+110F2", "U+110F3", "U+110F4", "U+110F5", "U+110F6", "U+110F7", "U+110F8", "U+110F9">>,
       <<"U+11136", "U+11137", "U+11138", "U+11139", "U+1113A", "U+1113B", "U+1113C", "U+1113D", "U+1113E", "U+1113F">>,
       <<"U+111D0", "U+111D1", "U+111D2", "U+111D3", "U+111D4", "U+111D5", "U+111D6", "U+111D7", "U+111D8", "U+111D9">>,
       <<"U+112F0", "U+112F1", "U+112F2", "U+112F3", "U+112F4", "U+112F5", "U+112F6", "U+112F7", "U+112F8", "U+112F9">>,
       <<"U+11450", "U+11451", "U+11452", "U+11453", "U+11454", "U+11455", "U+11456", "U+11457", "U+11458", "U+11459">>,
       <<"U+114D0", "U+114D1", "U+114D2", "U+114D3", "U+114D4", "U+114D5", "U+114D6", "U+114D7", "U+114D8", "U+114D9">>,
       <<"U+11650", "U+11651", "U+11652", "U+11653", "U+11654", "U+11655", "U+11656", "U+11657", "U+11658", "U+11659">>,
       <<"U+116C0", "U+116C1", "U+116C2", "U+116C3", "U+116C4", "U+116C5", "U+116C6", "U+116C7", "U+116C8", "U+116C9">>,
       <<"U+11730", "U+11731", "U+11732", "U+11733", "U+11734", "U+11735", "U+11736", "U+11737", "U+11738", "U+11739">>,
       <<"U+118E0", "U+118E1", "U+118E2", "U+118E3", "U+118E4", "U+118E5", "U+118E6", "U+118E7", "U+118E8", "U+118E9">>,
       <<"U+11950", "U+11951", "U+11952", "U+11953", "U+11954", "U+11955", "U+11956", "U+11957", "U+11958", "U+11959">>,
       <<"U+11C50", "U+11C51", "U+11C52", "U+11C53", "U+11C54", "U+11C55", "U+11C56", "U+11C57", "U+11C58", "U+11C59">>,
       <<"U+11D50", "U+11D51", "U+11D52", "U+11D53", "U+11D54", "U+11D55", "U+11D56", "U+11D57", "U+11D58", "U+11D59">>,
       <<"U+11DA0", "U+11DA1", "U+11DA2", "U+11DA3", "U+11DA4", "U+11DA5", "U+11DA6", "U+11DA7", "U+11DA8", "U+11DA9">>,
       <<"U+16A60", "U+16A61", "U+16A62", "U+16A63", "U+16A64", "U+16A65", "U+16A66", "U+16A67", "U+16A68", "U+16A69">>,
       <<"U+16AC0", "U+16AC1", "U+16AC2", "U+16AC3", "U+16AC4", "U+16AC5", "U+16AC6", "U+16AC7", "U+16AC8", "U+16AC9">>,
       <<"U+16B50", "U+16B51", "U+16B52", "U+16B53", "U+16B54", "U+16B55", "U+16B56", "U+16B57", "U+16B58", "U+16B59">>,
       <<"U+1D7CE", "U+1D7CF", "U+1D7D0", "U+1D7D1", "U+1D7D2", "U+1D7D3", "U+1D7D4", "U+1D7D5", "U+1D7D6", "U+1D7D7">>,
       <<"U+1D7D8", "U+1D7D9", "U+1D7DA", "U+1D7DB", "U+1D7DC", "U+1D7DD", "U+1D7DE", "U+1D7DF", "U+1D7E0", "U+1D7E1">>,
       <<"U+1D7E2", "U+1D7E3", "U+1D7E4", "U+1D7E5", "U+1D7E6", "U+1D7E7", "U+1D7E8", "U+1D7E9", "U+1D7EA", "U+1D7EB">>,
       <<"U+1D7EC", "U+1D7ED", "U+1D7EE", "U+1D7EF", "U+1D7F0", "U+1D7F1", "U+1D7F2", "U+1D7F3", "U+1D7F4", "U+1D7F5">>,
       <<"U+1D7F6", "U+1D7F7", "U+1D7F8", "U+1D7F9", "U+1D7FA", "U+1D7FB", "U+1D7FC", "U+1D7FD", "U+1D7FE", "U+1D7FF">>,
       <<"U+1E140", "U+1E141", "U+1E142", "U+1E143", "U+1E144", "U+1E145", "U+1E146", "U+1E147", "U+1E148", "U+1E149">>,
       <<"U+1E2F0", "U+1E2F1", "U+1E2F2", "U+1E2F3", "U+1E2F4", "U+1E2F5", "U+1E2F6", "U+1E2F7", "U+1E2F8", "U+1E2F9">>,
       <<"U+1E950", "U+1E951", "U+1E952", "U+1E953", "U+1E954", "U+1E955", "U+1E956", "U+1E957", "U+1E958", "U+1E959">>,
       <<"U+1FBF0", "U+1FBF1", "U+1FBF2", "U+1FBF3", "U+1FBF4", "U+1FBF5", "U+1FBF6", "U+1FBF7", "U+1FBF8", "U+1FBF9">>
    >>

DecimalDigits == {ASCIIDigits[i] : i \in 1..10}

\* Every character float() reads as a decimal digit.
Digits ==
    DecimalDigits
    \cup {UnicodeDigits[r][i] : r \in DOMAIN UnicodeDigits, i \in 1..10}

DigitValue(c) ==
    CHOOSE v \in 0..9 :
        \/ c = ASCIIDigits[v + 1]
        \/ \E r \in DOMAIN UnicodeDigits : UnicodeDigits[r][v + 1] = c

RECURSIVE DecimalValue(_)
DecimalValue(s) ==
    IF Len(s) = 0 THEN 0
    ELSE 10 * DecimalValue(SubSeq(s, 1, Len(s) - 1)) + DigitValue(s[Len(s)])

\* A float is written as Python's repr() writes it: sign * digits * 10^exp,
\* digits the shortest decimal numeral that reads back as the same double,
\* without leading or trailing zeros (empty for zero); or an infinity; or nan.
\*   1.5 is Finite(1, <<"1", "5">>, -1), -10.0 is Finite(-1, <<"1">>, 1),
\*   0.0 is Finite(1, <<>>, 0), -0.0 is Finite(-1, <<>>, 0).
Finite(sign, digits, exp) ==
    [t |-> "float", k |-> "finite", sign |-> sign, digits |-> digits, exp |-> exp]
Inf(sign) ==
    [t |-> "float", k |-> "inf", sign |-> sign, digits |-> <<>>, exp |-> 0]
NaN == [t |-> "float", k |-> "nan", sign |-> 1, digits |-> <<>>, exp |-> 0]

IsDigits(s) == \A i \in 1..Len(s) : s[i] \in DecimalDigits

\* How many times z stands at the start of s, and at its end.
Leading(s, z) ==
    IF \A i \in 1..Len(s) : s[i] = z THEN Len(s)
    ELSE (CHOOSE i \in 1..Len(s) :
              s[i] # z /\ \A j \in 1..(i - 1) : s[j] = z) - 1
Trailing(s, z) ==
    IF \A i \in 1..Len(s) : s[i] = z THEN Len(s)
    ELSE Len(s) - (CHOOSE i \in 1..Len(s) :
                       s[i] # z /\ \A j \in (i + 1)..Len(s) : s[j] = z)

\* ---- natural numbers of any size, for the rounding of a literal to a
\* double: a number is its limbs in base 10^4, the lowest first; <<>> is 0.
Big == Seq(0..9999)
Numerals == Seq(DecimalDigits)

BigTrim[a \in Seq(Nat)] == SubSeq(a, 1, Len(a) - Trailing(a, 0))

Limb(a, j) == IF j <= Len(a) THEN a[j] ELSE 0

\* -1, 0, 1 as a < b, a = b, a > b
BigCmp[a \in Big, b \in Big] ==
    IF Len(a) < Len(b) THEN -1
    ELSE IF Len(a) > Len(b) THEN 1
    ELSE IF a = b THEN 0
    ELSE IF \E i \in 1..Len(a) :
                a[i] < b[i] /\ \A j \in (i + 1)..Len(a) : a[j] = b[j]
         THEN -1
    ELSE 1

\* Does a carry reach limb j of the sums s, each below 2 * 10^4?
RECURSIVE CarryInto(_, _)
CarryInto(s, j) ==
    /\ j > 1
    /\ \/ s[j - 1] >= 10000
       \/ s[j - 1] = 9999 /\ CarryInto(s, j - 1)

Carried[s \in Seq(Nat)] ==
    [j \in 1..Len(s) |-> (s[j] + (IF CarryInto(s, j) THEN 1 ELSE 0)) % 10000]

\* a * k + c
BigMulAdd[a \in Big, k \in 1..10000, c \in 0..9999] ==
    BigTrim[Carried[[j \in 1..(Len(a) + 1) |->
                        ((Limb(a, j) * k) % 10000)
                        + (IF j = 1 THEN c ELSE (a[j - 1] * k) \div 10000)]]]

\* a * k
BigTimes[a \in Big, k \in 0..10000] ==
    IF k = 0 THEN <<>> ELSE BigMulAdd[a, k, 0]

\* Does a borrow reach limb j of a - b?
BorrowInto(a, b, j) ==
    \E i \in 1..(j - 1) :
        a[i] < Limb(b, i) /\ \A l \in (i + 1)..(j - 1) : a[l] = Limb(b, l)

\* a - b, for a >= b
BigSub[a \in Big, b \in Big] ==
    BigTrim[[j \in 1..Len(a) |->
                (a[j] - Limb(b, j) - (IF BorrowInto(a, b, j) THEN 1 ELSE 0)
                 + 10000) % 10000]]

\* The limbs of a \div k from limb i down, r being what the limbs above
\* it left.
DivFrom[a \in Big, k \in 1..10000, i \in Nat, r \in Nat] ==
    IF i = 0 THEN <<>>
    ELSE DivFrom[a, k, i - 1, (r * 10000 + a[i]) % k]
           \o <<(r * 10000 + a[i]) \div k>>

\* a \div k
BigDiv[a \in Big, k \in 1..10000] == BigTrim[DivFrom[a, k, Len(a), 0]]

\* a * 2^(13 * 2^j)
TimesPower[a \in Big, j \in Nat] ==
    IF j = 0 THEN BigTimes[a, 8192] ELSE TimesPower[TimesPower[a, j - 1], j - 1]

\* a * 2^(13 * n), for n < 2^(j + 1)
TimesPowers[a \in Big, n \in Nat, j \in Int] ==
    IF n = 0 THEN a
    ELSE IF n >= 2^j THEN TimesPowers[TimesPower[a, j], n - 2^j, j - 1]
    ELSE TimesPowers[a, n, j - 1]

\* a * 2^n, for n < 13 * 2^7
BigTimes2[a \in Big, n \in Nat] ==
    TimesPowers[BigTimes[a, 2^(n % 13)], n \div 13, 6]

\* a * 10^(4 * n)
BigShift[a \in Big, n \in Nat] ==
    IF n = 0 \/ a = <<>> THEN a ELSE [i \in 1..n |-> 0] \o a

\* a * 10^n
BigTimes10[a \in Big, n \in Nat] == BigShift[BigTimes[a, 10^(n % 4)], n \div 4]

\* The number whose decimal numeral is d, which has no leading zeros.
BigFromDigits[d \in Numerals] ==
    BigTrim[[j \in 1..((Len(d) + 3) \div 4) |->
                DecimalValue(SubSeq(d, IF Len(d) - 4 * j + 1 < 1 THEN 1
                                       ELSE Len(d) - 4 * j + 1,
                                    Len(d) - 4 * j + 4))]]

DropLeadingZeros(s) == SubSeq(s, Leading(s, "0") + 1, Len(s))

\* The decimal numeral of a, <<>> for 0.
BigToDigits[a \in Big] ==
    DropLeadingZeros(
        [p \in 1..(4 * Len(a)) |->
            ASCIIDigits[((a[Len(a) - ((p - 1) \div 4)]
                          \div 10^(3 - ((p - 1) % 4))) % 10) + 1]])

\* The greatest k in lo..hi with t * k <= r (t * lo <= r).
QuotientLimb[r \in Big, t \in Big, lo \in 0..9999, hi \in 0..9999] ==
    IF lo = hi THEN lo
    ELSE IF BigCmp[BigTimes[t, (lo + hi + 1) \div 2], r] <= 0
         THEN QuotientLimb[r, t, (lo + hi + 1) \div 2, hi]
    ELSE QuotientLimb[r, t, lo, (lo + hi + 1) \div 2 - 1]

\* A division under way: the limbs q of the quotient found so far, and r,
\* what is left to divide.
Division == [q : Big, r : Big]

\* The next limb of the quotient is k, and counts t.
DivideBy[x \in Division, t \in Big, k \in 0..9999] ==
    [q |-> <<k>> \o x.q, r |-> BigSub[x.r, BigTimes[t, k]]]
DivideStep[x \in Division, t \in Big] ==
    DivideBy[x, t, QuotientLimb[x.r, t, 0, 9999]]

\* The limbs of the quotient by b from limb j down, for x.r < b * 10^(4 * j)
DivideFrom[x \in Division, b \in Big, j \in Nat] ==
    IF j = 0 THEN [q |-> BigTrim[x.q], r |-> x.r]
    ELSE DivideFrom[DivideStep[x, BigShift[b, j - 1]], b, j - 1]

\* a \div b and what is left, for a < b * 10^20
BigQuotient[a \in Big, b \in Big] ==
    DivideFrom[[q |-> <<>>, r |-> a], b, 5]

Positive(n) == IF n > 0 THEN n ELSE 0

\* ---- from a decimal literal to the double nearest to it
\* An integer that is at most the logarithm of 10^n to base 2, and one that
\* is at most the logarithm of 2^n to base 10.
Log2Floor(n) ==
    IF n >= 0 THEN (n * 3321928) \div 1000000
    ELSE 0 - (((0 - n) * 3321929 + 999999) \div 1000000)
Log10Floor(n) ==
    IF n >= 0 THEN (n * 30102) \div 100000
    ELSE 0 - (((0 - n) * 30103 + 99999) \div 100000)

\* 2^53
Two53 == <<992, 5474, 1992, 9007>>

\* A double is m * 2^b, with 2^52 <= m < 2^53 (or m < 2^52 and b = -1074,
\* a subnormal; or m = 0 and b = 0), or an infinity. 2^53 * 2^b is
\* 2^52 * 2^(b + 1).
Doubles == [k : {"finite", "inf"}, m : Big, b : Int]

Binary[m \in Big, b \in Int] ==
    IF m = <<>> THEN [k |-> "finite", m |-> <<>>, b |-> 0]
    ELSE IF m = Two53
         THEN IF b + 1 > 971 THEN [k |-> "inf", m |-> <<>>, b |-> 0]
              ELSE [k |-> "finite", m |-> BigDiv[Two53, 2], b |-> b + 1]
    ELSE IF b > 971 THEN [k |-> "inf", m |-> <<>>, b |-> 0]
    ELSE [k |-> "finite", m |-> m, b |-> b]

\* Rounding to nearest, ties to even: m is the quotient x.q \div 2^s, low
\* is what that division left, x.r what the division before it left.
RoundUp[m \in Big, low \in Nat, x \in Division, b \in Int, s \in 1..8] ==
    Binary[IF \/ 2 * low > 2^s
              \/ 2 * low = 2^s /\ (x.r # <<>> \/ Limb(m, 1) % 2 = 1)
           THEN BigMulAdd[m, 1, 1] ELSE m,
           b + s]

\* Of the quotient x.q (times 2^b) the lowest s bits are dropped.
RoundFrom[m \in Big, x \in Division, b \in Int, s \in 1..8] ==
    RoundUp[m, Limb(BigSub[x.q, BigTimes[m, 2^s]], 1), x, b, s]
RoundAt[x \in Division, b \in Int, s \in 1..8] ==
    RoundFrom[BigDiv[x.q, 2^s], x, b, s]

\* 53 bits are kept, and one bit at least is dropped.
RoundQuotient[x \in Division, b \in Int] ==
    RoundAt[x, b,
            CHOOSE s \in 1..8 :
                /\ BigCmp[x.q, BigTimes2[<<1>>, 53 + s]] < 0
                /\ s = 1 \/ BigCmp[x.q, BigTimes2[<<1>>, 52 + s]] >= 0]

\* The double nearest to n * 10^e, which is less than 2^(b + 58), and at
\* least 2^(b + 53) unless b = -1075.
Scaled[n \in Big, e \in Int, b \in Int] ==
    RoundQuotient[
        BigQuotient[BigTimes2[BigTimes10[n, Positive(e)], Positive(0 - b)],
                    BigTimes2[BigTimes10[<<1>>, Positive(0 - e)], Positive(b)]],
        b]

\* The double nearest to d * 10^e, d a numeral without leading zeros that
\* is not 0, and 10^-326 <= d * 10^e < 10^310.
Nearest[d \in Numerals, e \in Int] ==
    Scaled[BigFromDigits[d], e,
           IF Log2Floor(e + Len(d) - 1) - 53 < -1075 THEN -1075
           ELSE Log2Floor(e + Len(d) - 1) - 53]

\* ---- from a double to the shortest decimal numeral that reads back as it
\* Is the first of the digits rest, and what follows them, above a half
\* (1), a half (0), or below (-1)?
AgainstHalf[rest \in Numerals, more \in BOOLEAN] ==
    IF DigitValue(rest[1]) > 5 THEN 1
    ELSE IF DigitValue(rest[1]) < 5 THEN -1
    ELSE IF more \/ \E i \in 2..Len(rest) : rest[i] # "0" THEN 1
    ELSE 0

\* The float d * 10^e for a numeral d: trailing zeros go to the exponent
Normal[d \in Numerals, e \in Int] ==
    Finite(1, SubSeq(d, 1, Len(d) - Trailing(d, "0")), e + Trailing(d, "0"))

\* d + 1, for a numeral d
Successor[d \in Numerals] == BigToDigits[BigMulAdd[BigFromDigits[d], 1, 1]]

\* Of the numerals lo and lo + 1 (times 10^e) that read back as the double
\* x, the nearer to it; half tells where x lies between the two.
Nearer[x \in Doubles, lo \in Numerals, e \in Int, half \in -1..1] ==
    IF Nearest[lo, e] # x THEN Normal[Successor[lo], e]
    ELSE IF Nearest[Successor[lo], e] # x THEN Normal[lo, e]
    ELSE IF half > 0 \/ (half = 0 /\ DigitValue(lo[Len(lo)]) % 2 = 1)
         THEN Normal[Successor[lo], e]
    ELSE Normal[lo, e]

\* Does the numeral of the first n digits of c (whose first digit counts
\* 10^adj), or the one after it, read back as the double x?
ReadsBack[x \in Doubles, c \in Numerals, adj \in Int, n \in 1..17] ==
    \/ Nearest[SubSeq(c, 1, n), adj - n + 1] = x
    \/ Nearest[Successor[SubSeq(c, 1, n)], adj - n + 1] = x

\* The least n in lo..hi for which n digits read back as x: hi digits do,
\* and when n digits do, more digits do.
DigitsNeeded[x \in Doubles, c \in Numerals, adj \in Int, lo \in 1..17, hi \in 1..17] ==
    IF lo = hi THEN lo
    ELSE IF ReadsBack[x, c, adj, (lo + hi) \div 2]
         THEN DigitsNeeded[x, c, adj, lo, (lo + hi) \div 2]
    ELSE DigitsNeeded[x, c, adj, (lo + hi) \div 2 + 1, hi]

\* c holds the first 18 digits or more of the double x, whose first digit
\* counts 10^adj; more tells whether digits other than 0 follow. 17 digits
\* always read back.
ShortenTo[x \in Doubles, c \in Numerals, more \in BOOLEAN, adj \in Int, n \in 1..17] ==
    Nearer[x, SubSeq(c, 1, n), adj - n + 1,
           AgainstHalf[SubSeq(c, n + 1, Len(c)), more]]

\* q holds x \div 10^(g - 17), 18 digits or more, and what the division
\* left.
ShortestFrom[x \in Doubles, q \in Division, g \in Int] ==
    ShortenTo[x, BigToDigits[q.q], q.r # <<>>,
              g + Len(BigToDigits[q.q]) - 18,
              DigitsNeeded[x, BigToDigits[q.q],
                           g + Len(BigToDigits[q.q]) - 18, 1, 17]]

\* x is at least 10^g, and less than 10^(g + 3): its first 18 digits or
\* more are x \div 10^(g - 17).
ShortestAbove[x \in Doubles, g \in Int] ==
    ShortestFrom[x,
        BigQuotient[BigTimes10[BigTimes2[x.m, Positive(x.b)], Positive(17 - g)],
                    BigTimes10[BigTimes2[<<1>>, Positive(0 - x.b)], Positive(g - 17)]],
        g]

\* The float of repr(x), for a double x that is finite and above 0
Shortest[x \in Doubles] ==
    ShortestAbove[x, Len(BigToDigits[x.m]) - 1 + Log10Floor(x.b)]

\* ---- float values
\* The float that is the double x, with its sign.
FromBinary[sign \in {-1, 1}, x \in Doubles] ==
    IF x.k = "inf" THEN Inf(sign)
    ELSE IF x.m = <<>> THEN Finite(sign, <<>>, 0)
    ELSE [Shortest[x] EXCEPT !.sign = sign]

\* The double nearest to sign * d * 10^e, d a numeral without leading or
\* trailing zeros. A numeral of 15 digits at most, in the range of the
\* normal doubles, is its own shortest numeral.
Round(sign, d, e) ==
    IF d = <<>> THEN Finite(sign, <<>>, 0)
    ELSE IF e + Len(d) - 1 > 309 THEN Inf(sign)
    ELSE IF e + Len(d) - 1 < -325 THEN Finite(sign, <<>>, 0)
    ELSE IF Len(d) <= 15 /\ e + Len(d) - 1 >= -307 /\ e + Len(d) - 1 <= 307
         THEN Finite(sign, d, e)
    ELSE FromBinary[sign, Nearest[d, e]]

\* The double nearest to sign * digits * 10^exp, digits any numeral: its
\* leading zeros are dropped, its trailing zeros go to the exponent.
Double(sign, digits, exp) ==
    Round(sign,
          SubSeq(digits, Leading(digits, "0") + 1, Len(digits) - Trailing(digits, "0")),
          exp + Trailing(digits, "0"))

\* The characters float() strips from both ends of a string: the ASCII
\* whitespace and, as float() turns them into blanks first, NEXT LINE,
\* NO-BREAK SPACE and the spaces beyond U+00FF.
Whitespace ==
    { " ", "\t", "\n", "\r", "\f", "", "", " ",
      "U+1680", "U+2000", "U+2001", "U+2002", "U+2003", "U+2004", "U+2005",
      "U+2006", "U+2007", "U+2008", "U+2009", "U+200A", "U+2028", "U+2029",
      "U+202F", "U+205F", "U+3000" }

\* The string float() parses: every decimal digit becomes its ASCII digit.
ToASCII(s) ==
    [i \in 1..Len(s) |->
        IF s[i] \in Digits THEN ASCIIDigits[DigitValue(s[i]) + 1] ELSE s[i]]

\* s.strip()
strip(s) ==
    LET keep == {i \in 1..Len(s) : s[i] \notin Whitespace} IN
    IF keep = {} THEN <<>>
    ELSE SubSeq(s, CHOOSE i \in keep : \A j \in keep : i <= j,
                   CHOOSE i \in keep : \A j \in keep : i >= j)

\* s.lower(), for the letters of "inf", "infinity", "nan" and the exponent
lower(s) ==
    [i \in 1..Len(s) |->
        CASE s[i] = "I" -> "i" [] s[i] = "N" -> "n" [] s[i] = "F" -> "f"
          [] s[i] = "T" -> "t" [] s[i] = "Y" -> "y" [] s[i] = "A" -> "a"
          [] s[i] = "E" -> "e" [] OTHER -> s[i]]

\* The exponent of a literal from its digits, as float() reads it: leading
\* zeros are skipped and the value is exact up to nine significant digits;
\* with more it is taken as 1100000000 (MAX_ABS_EXP of the string-to-double
\* conversion), before the mantissa is looked at.
ExponentValue(s) ==
    IF Len(s) - Leading(s, "0") > 9 THEN 1100000000
    ELSE DecimalValue(SubSeq(s, Leading(s, "0") + 1, Len(s)))

\* The exponent part of a literal, <<>> when the literal has none: its
\* value, and whether it is well formed (a sign may lead, a digit must follow).
SignedExponent(expo) ==
    IF Len(expo) = 0 THEN 0
    ELSE IF expo[1] = "-" THEN 0 - ExponentValue(Tail(expo))
    ELSE IF expo[1] = "+" THEN ExponentValue(Tail(expo))
    ELSE ExponentValue(expo)
IsExponent(expo) ==
    IF expo[1] \in {"+", "-"} THEN Len(expo) > 1 /\ IsDigits(Tail(expo))
    ELSE IsDigits(expo)

\* Where c first occurs in s, Len(s) + 1 if nowhere.
find(s, c) ==
    IF \A i \in 1..Len(s) : s[i] # c THEN Len(s) + 1
    ELSE CHOOSE i \in 1..Len(s) : s[i] = c /\ \A j \in 1..(i - 1) : s[j] # c

\* The literal int.frac with its exponent part. A literal of more than
\* 1000000000 digits after its leading zeros, or behind its point, is
\* refused (MAX_DIGITS of the string-to-double conversion).
float_digits(sign, int, frac, expo) ==
    IF /\ IsDigits(int) /\ IsDigits(frac) /\ Len(int) + Len(frac) > 0
       /\ Len(int \o frac) - Leading(int \o frac, "0") <= 1000000000
       /\ Len(frac) <= 1000000000
    THEN R(Double(sign, int \o frac, SignedExponent(expo) - Len(frac)))
    ELSE E("ValueError", Str(<<>>))

\* The literal mant with its exponent part: mant is cut at its first point.
float_mantissa(sign, mant, expo) ==
    float_digits(sign, SubSeq(mant, 1, find(mant, ".") - 1),
                 SubSeq(mant, find(mant, ".") + 1, Len(mant)), expo)

\* float() of an unsigned literal without underscores: inf, infinity, nan
\* in any case, or digits with at most one point and an optional exponent.
float_unsigned(sign, body) ==
    IF body \in {<<"i", "n", "f">>, <<"i", "n", "f", "i", "n", "i", "t", "y">>}
    THEN R(Inf(sign))
    ELSE IF body = <<"n", "a", "n">> THEN R(NaN)
    ELSE IF find(body, "e") > Len(body) THEN float_mantissa(sign, body, <<>>)
    ELSE IF find(body, "e") = Len(body)
              \/ ~IsExponent(SubSeq(body, find(body, "e") + 1, Len(body)))
         THEN E("ValueError", Str(<<>>))
    ELSE float_mantissa(sign, SubSeq(body, 1, find(body, "e") - 1),
                        SubSeq(body, find(body, "e") + 1, Len(body)))

\* float() of a literal without underscores: a sign may lead.
float_signed(u) ==
    IF Len(u) > 0 /\ u[1] = "-" THEN float_unsigned(-1, lower(Tail(u)))
    ELSE IF Len(u) > 0 /\ u[1] = "+" THEN float_unsigned(1, lower(Tail(u)))
    ELSE float_unsigned(1, lower(u))

\* float() of a stripped string: an underscore may stand between two digits.
float_stripped(s) ==
    IF \E i \in 1..Len(s) :
           /\ s[i] = "_"
           /\ ~(i > 1 /\ i < Len(s) /\ s[i - 1] \in DecimalDigits /\ s[i + 1] \in DecimalDigits)
    THEN E("ValueError", Str(<<>>))
    ELSE float_signed(SelectSeq(s, LAMBDA c : c # "_"))

\* float(tok) for a string: whitespace at both ends is stripped.
float(tok) == float_stripped(ToASCII(strip(tok)))

\* s.split(sep): every separator ends a token, empty tokens are kept
RECURSIVE split(_, _)
split(s, sep) ==
    IF \A i \in 1..Len(s) : s[i] # sep THEN <<s>>
    ELSE LET i == CHOOSE j \in 1..Len(s) :
                      s[j] = sep /\ \A h \in 1..(j - 1) : s[h] # sep
         IN <<SubSeq(s, 1, i - 1)>> \o split(SubSeq(s, i + 1, Len(s)), sep)

\* sep.join(parts), parts a sequence of strings
RECURSIVE join(_, _)
join(sep, parts) ==
    IF Len(parts) = 0 THEN <<>>
    ELSE IF Len(parts) = 1 THEN parts[1]
    ELSE parts[1] \o sep \o join(sep, Tail(parts))

\* ---------------------------------------------------------- Location
\* |x| <= n for a float x and an n of three digits at most: x is finite, and
\* either below 1, or its integer part is below n, or x is n itself.
Within(x, n) ==
    /\ x.k = "finite"
    /\ \/ x.exp + Len(x.digits) <= 0
       \/ /\ x.exp + Len(x.digits) <= 3
          /\ IF x.exp >= 0 THEN DecimalValue(x.digits) * 10^(x.exp) <= n
             ELSE DecimalValue(SubSeq(x.digits, 1, Len(x.digits) + x.exp)) < n

\* A coordinate: degrees of latitude in [-90, 90] and of longitude in
\* [-180, 180].
Coordinate(latitude, longitude) == Within(latitude, 90) /\ Within(longitude, 180)

\* geopy.location.Location(address, point, raw); point is (latitude,
\* longitude). A result holds a coordinate: a point that is none is refused.
Location(address, point, raw) ==
    IF Coordinate(point[1], point[2])
    THEN R([t |-> "Location", address |-> address,
            latitude |-> point[1], longitude |-> point[2], raw |-> raw])
    ELSE E("ValueError", Str(<<>>))

\* ------------------------------------------------- Yandex._parse_json
\* if doc.get('error'): raise GeocoderServiceError(doc['error']['message'])
\* R(None) when the document carries no (truthy) error.
check_error(doc) ==
    LET g == Get(doc, "error") IN
    IF ~g.ok THEN g
    ELSE IF Truthy(g.v)
         THEN LET m == GetItem(g.v, "message") IN
              IF m.ok THEN E("GeocoderServiceError", m.v) ELSE m
         ELSE R(None)

\* places = doc['response']['GeoObjectCollection']['featureMember'],
\* a KeyError becoming GeocoderParseError
locate_places(doc) ==
    LET r1 == GetItem(doc, "response")
        r2 == IF r1.ok THEN GetItem(r1.v, "GeoObjectCollection") ELSE r1
        r3 == IF r2.ok THEN GetItem(r2.v, "featureMember") ELSE r2
    IN IF ~r3.ok /\ r3.exc = "KeyError"
       THEN E("GeocoderParseError", Str(<<>>))
       ELSE r3

\* [float(_) for _ in tokens]: the first token that is no number raises
floats(tokens) ==
    IF \E i \in 1..Len(tokens) : ~float(tokens[i]).ok
    THEN E("ValueError", Str(<<>>))
    ELSE R([i \in 1..Len(tokens) |-> float(tokens[i]).v])

\* longitude, latitude = f: a list of two is unpacked, any other is a ValueError
unpack(f) ==
    IF ~f.ok THEN f
    ELSE IF Len(f.v) # 2 THEN E("ValueError", Str(<<>>))
    ELSE R(<<f.v[1], f.v[2]>>)

\* [float(_) for _ in pos.split(' ')], pos the outcome of place['Point']['pos']
split_pos(pos) ==
    IF ~pos.ok THEN pos
    ELSE IF pos.v.t # "str" THEN E("AttributeError", Str(<<>>))
    ELSE unpack(floats(split(pos.v.s, " ")))

\* longitude, latitude = [float(_) for _ in place['Point']['pos'].split(' ')]
\* R(<<longitude, latitude>>)
unpack_pos(place) ==
    LET p == GetItem(place, "Point") IN
    split_pos(IF p.ok THEN GetItem(p.v, "pos") ELSE p)

name_elements == <<"name", "description">>

\* ', '.join([place[k] for k in name_elements if place.get(k)])
label(place) ==
    LET kept == SelectSeq(name_elements, LAMBDA k : Truthy(Get(place, k).v))
        parts == [i \in 1..Len(kept) |-> place.o[kept[i]]]
    IN IF \E i \in 1..Len(parts) : parts[i].t # "str"
       THEN E("TypeError", Str(<<>>))
       ELSE R(Str(join(<<",", " ">>, [i \in 1..Len(parts) |-> parts[i].s])))

\* return Location(location, (latitude, longitude), place), c the outcome
\* of unpacking the position and l of joining the labels
make_location_swapped(place, c, l) ==
    IF ~c.ok THEN c
    ELSE IF ~l.ok THEN l
    ELSE Location(l.v, <<c.v[1], c.v[2]>>, place)

make_location(place, c, l) ==
    IF ~c.ok THEN c
    ELSE IF ~l.ok THEN l
    ELSE Location(l.v, <<c.v[2], c.v[1]>>, place)

\* parse_code(place), the nested function of _parse_json
parse_code(place) ==
    LET g == GetItem(place, "GeoObject") IN
    IF ~g.ok
    THEN IF g.exc = "KeyError" THEN E("GeocoderParseError", Str(<<>>)) ELSE g
    ELSE make_location(g.v, unpack_pos(g.v), label(g.v))

\* exactly_one: try: return parse_code(places[0]) / except IndexError: None
parse_exactly_one_last(places) ==
    LET it == Iter(places) IN
    IF ~it.ok THEN it
    ELSE IF Len(it.v) = 0 THEN R(None)
    ELSE parse_code(it.v[Len(it.v)])

\* except IndexError: return None
except_IndexError(r) ==
    IF ~r.ok /\ r.exc = "IndexError" THEN R(None) ELSE r

parse_exactly_one(places) ==
    LET f == First(places) IN
    IF ~f.ok THEN except_IndexError(f) ELSE except_IndexError(parse_code(f.v))

\* else: return [parse_code(place) for place in places]
\* The list a comprehension builds from the outcomes rs of its items, or
\* the first exception among them.
comprehension(rs) ==
    IF \E i \in 1..Len(rs) : ~rs[i].ok
    THEN rs[CHOOSE i \in 1..Len(rs) :
                ~rs[i].ok /\ \A h \in 1..(i - 1) : rs[h].ok]
    ELSE R(List([i \in 1..Len(rs) |-> rs[i].v]))

parse_all_reversed(places) ==
    LET it == Iter(places) IN
    IF ~it.ok THEN it
    ELSE comprehension([i \in 1..Len(it.v) |-> parse_code(it.v[Len(it.v) + 1 - i])])

parse_all(places) ==
    LET it == Iter(places) IN
    IF ~it.ok THEN it
    ELSE comprehension([i \in 1..Len(it.v) |-> parse_code(it.v[i])])

_parse_json_error_last(doc, exactly_one_) ==
    LET places == locate_places(doc) IN
    IF ~places.ok THEN places
    ELSE LET r == IF exactly_one_ THEN parse_exactly_one(places.v)
                  ELSE parse_all(places.v)
         IN IF ~r.ok THEN r
            ELSE LET e == check_error(doc) IN IF ~e.ok THEN e ELSE r

_parse_json(doc, exactly_one_) ==
    LET e == check_error(doc) IN
    IF ~e.ok THEN e
    ELSE LET places == locate_places(doc) IN
         IF ~places.ok THEN places
         ELSE IF exactly_one_ THEN parse_exactly_one(places.v)
         ELSE parse_all(places.v)

\* ------------------------------------------------ response documents
PosChars == {"1", "2", " ", "x", ".", "-"}
PosStrings == UNION {[1..n -> PosChars] : n \in 0..MaxPosLen}

\* Point.pos strings beyond that alphabet: a position as the service sends
\* it, the other spellings float() takes, and positions at and beyond the
\* ends of the ranges of a coordinate.
SpecialPos ==
    { <<"3", "7", ".", "6", "1", "7", "6", "3", "5", " ",
        "5", "5", ".", "7", "5", "5", "8", "1", "4">>,
      <<"-", "0", ".", "5", " ", "+", "1">>,
      <<"1", "e", "1", " ", "2", "E", "-", "1">>,
      <<"1", "_", "0", " ", "2">>,
      <<"1", "_", " ", "2">>,
      <<"1", "\t", " ", "2">>,
      <<"1", "\t", "2">>,
      <<"n", "a", "n", " ", "2">>,
      <<"1", " ", "N", "a", "N">>,
      <<"i", "n", "f", " ", "2">>,
      <<"-", "I", "n", "f", "i", "n", "i", "t", "y", " ", "2">>,
      <<"1", "e", "3", "0", "9", " ", "1", "e", "-", "3", "2", "5">>,
      <<"1", "e", " ", "2">>,
      <<"1", "8", "0", " ", "9", "0">>,
      <<"-", "1", "8", "0", " ", "-", "9", "e", "1">>,
      <<"1", "8", "1", " ", "2">>,
      <<"1", " ", "9", "0", ".", "5">>,
      <<"1", ".", "0", "0", "0", "0", "0", "0", "0", "0", "0", "0", "0", "0",
        "0", "0", "0", "1", " ", "2">>,
      <<"9", "0", "0", "7", "1", "9", "9", "2", "5", "4", "7", "4", "0", "9",
        "9", "3", " ", "0", ".", "3", "0", "0", "0", "0", "0", "0", "0", "0",
        "0", "0", "0", "0", "0", "0", "0", "4">>,
      <<"8", "e", "-", "3", "2", "4", " ", "2">>,
      <<"U+0661", " ", "1", "U+0662", ".", "5">>,
      <<"U+FF11", "e", "U+FF11", " ", "U+2003", "2", "U+3000">>,
      <<"1", "", " ", " ", "2", "">>,
      <<"1", "U+2003", "2">> }

Point_(pos) == Obj([pos |-> pos])
GeoObject(point, name, description) ==
    Obj([Point |-> point, name |-> name, description |-> description])
Entry(geo) == Obj([GeoObject |-> geo])

NameN == Str(<<"N">>)
DescD == Str(<<"D">>)
Pos12 == Str(<<"1", " ", "2">>)
Pos21 == Str(<<"2", " ", "1">>)

\* Entries that stand for the kinds of entry: two that parse (with and
\* without labels), one whose pos is no coordinate, one without GeoObject,
\* one that is no dict.
RepEntries ==
    { Entry(GeoObject(Point_(Pos12), NameN, DescD)),
      Entry(GeoObject(Point_(Pos21), Absent, Absent)),
      Entry(GeoObject(Point_(Str(<<"x">>)), NameN, Absent)),
      Entry(Absent),
      None }

\* Every entry the model parses: any Point.pos string (PosEntries), any
\* labelling, and every place where a key may be missing or a value of
\* another shape (ShapeEntries).
PosEntries ==
    {Entry(GeoObject(Point_(Str(s)), NameN, DescD)) : s \in PosStrings \cup SpecialPos}
ShapeEntries ==
    RepEntries
    \cup {Entry(GeoObject(Point_(Pos12), n, d)) :
            n \in {Absent, None, Str(<<>>), NameN, Num(7), Finite(1, <<>>, 0),
                   Finite(-1, <<>>, 0), Finite(1, <<"5">>, -1), Bool(FALSE),
                   Bool(TRUE)},
            d \in {Absent, DescD}}
    \cup { Entry(None), Entry(Str(<<"g">>)),
           Entry(GeoObject(Absent, NameN, DescD)),
           Entry(GeoObject(None, NameN, DescD)),
           Entry(GeoObject(Point_(Absent), NameN, DescD)),
           Entry(GeoObject(Point_(None), NameN, DescD)),
           Entry(GeoObject(Point_(Num(1)), NameN, DescD)),
           Str(<<"e">>) }

\* The entry lists: the first entry is any entry, the later ones are
\* representative entries; an entry taken for its Point.pos string is
\* followed by one entry at most.
Tails == UNION {[1..n -> RepEntries] : n \in 0..(MaxPlaces - 1)}
Places ==
    {<<>>}
    \cup {<<e>> \o tl : e \in ShapeEntries, tl \in Tails}
    \cup {<<e>> \o tl : e \in PosEntries, tl \in {t \in Tails : Len(t) <= 1}}

Collection(fm) == Obj([featureMember |-> fm])
Response(goc) == Obj([GeoObjectCollection |-> goc])
Doc(error, response) == Obj([error |-> error, response |-> response])
WithPlaces(fm) == Response(Collection(fm))

FeatureMembers ==
    {List(p) : p \in Places}
    \cup {None, Num(0), Str(<<>>), Str(<<"f">>), Obj([k |-> Absent]), Obj([k |-> None])}

Responses ==
    {WithPlaces(fm) : fm \in FeatureMembers}
    \cup { Absent, None, List(<<>>), Response(Absent), Response(None),
           Response(List(<<>>)), Response(Collection(Absent)) }

BadKey == Str(<<"b", "a", "d", " ", "k", "e", "y">>)
ErrorObj(message, code) == Obj([message |-> message, code |-> code])

Errors ==
    { Absent, None, ErrorObj(Absent, Absent), ErrorObj(BadKey, Absent),
      ErrorObj(BadKey, Num(401)), ErrorObj(Str(<<>>), Absent),
      ErrorObj(Absent, Num(401)), BadKey, List(<<BadKey>>), Num(0),
      Finite(1, <<>>, 0), Finite(-1, <<>>, 0), NaN, Bool(FALSE), Bool(TRUE) }

RepResponses ==
    { Absent, None, Response(Absent),
      WithPlaces(None),
      WithPlaces(List(<<>>)),
      WithPlaces(List(<<Entry(GeoObject(Point_(Pos12), NameN, DescD)),
                        Entry(GeoObject(Point_(Pos21), Absent, Absent))>>)),
      WithPlaces(List(<<Entry(GeoObject(Point_(Str(<<"x">>)), NameN, Absent))>>)) }

\* The documents _parse_json is given: every response without an error
\* field, every error field over the representative responses, and one
\* document that is no dict.
Docs ==
    {Doc(Absent, r) : r \in Responses}
    \cup {Doc(e, r) : e \in Errors, r \in RepResponses}
    \cup {List(<<>>)}

\* ------------------------------------------ the Geocoder base class
DEFAULT_SENTINEL == [t |-> "DEFAULT_SENTINEL"]

\* geopy.geocoders.options: the process-wide defaults.
options ==
    [default_format_string |-> Str(<<"%", "s">>),
     default_scheme |-> Str(<<"h", "t", "t", "p", "s">>),
     default_timeout |-> Num(1),
     default_proxies |-> None,
     default_user_agent |-> Str(<<"g", "e", "o", "p", "y">>),
     default_ssl_context |-> None]

OrDefault(x, dflt) == IF Truthy(x) THEN x ELSE dflt
UnlessSentinel(x, dflt) == IF x = DEFAULT_SENTINEL THEN dflt ELSE x

\* Geocoder.__init__: every setting is the argument or the process default.
GeocoderInit(a) ==
    [format_string |-> OrDefault(a.format_string, options.default_format_string),
     scheme |-> OrDefault(a.scheme, options.default_scheme),
     timeout |-> UnlessSentinel(a.timeout, options.default_timeout),
     proxies |-> UnlessSentinel(a.proxies, options.default_proxies),
     user_agent |-> OrDefault(a.user_agent, options.default_user_agent),
     ssl_context |-> UnlessSentinel(a.ssl_context, options.default_ssl_context)]

\* A coordinate value (geopy.point.Point).
Point(latitude, longitude) ==
    [t |-> "Point", latitude |-> latitude, longitude |-> longitude]

RECURSIVE DecimalString(_)
DecimalString(n) ==
    IF n < 10 THEN <<ASCIIDigits[n + 1]>>
    ELSE DecimalString(n \div 10) \o <<ASCIIDigits[(n % 10) + 1]>>

\* float(n) for an int n
FromInt(n) ==
    IF n < 0 THEN Double(-1, DecimalString(0 - n), 0)
    ELSE Double(1, DecimalString(n), 0)

\* str() of a coordinate, a float: 2.0 prints as "2.0", 0.5 as "0.5",
\* 1e16 as "1e+16"
FormatCoordinate(x) ==
    LET n == Len(x.digits)
        Zeros(z) == [i \in 1..z |-> "0"]
        adj == x.exp + n - 1
        minus == IF x.sign < 0 THEN <<"-">> ELSE <<>>
        e == IF adj < 0 THEN 0 - adj ELSE adj
    IN CASE x.k = "nan" -> <<"n", "a", "n">>
         [] x.k = "inf" -> minus \o <<"i", "n", "f">>
         [] x.k = "finite" /\ n = 0 -> minus \o <<"0", ".", "0">>
         [] x.k = "finite" /\ n > 0 /\ adj >= -4 /\ adj <= 15 ->
              minus \o
              (IF x.exp >= 0 THEN x.digits \o Zeros(x.exp) \o <<".", "0">>
               ELSE IF adj >= 0
                    THEN SubSeq(x.digits, 1, adj + 1) \o <<".">>
                           \o SubSeq(x.digits, adj + 2, n)
               ELSE <<"0", ".">> \o Zeros(0 - adj - 1) \o x.digits)
         [] OTHER ->
              minus \o <<x.digits[1]>>
                \o (IF n > 1 THEN <<".">> \o SubSeq(x.digits, 2, n) ELSE <<>>)
                \o <<"e">> \o (IF adj < 0 THEN <<"-">> ELSE <<"+">>)
                \o (IF e < 10 THEN <<"0">> ELSE <<>>) \o DecimalString(e)

\* The Point of an unpacked (latitude, longitude), u the outcome of unpacking.
PointOf(u) == IF u.ok THEN R(Point(u.v[1], u.v[2])) ELSE u

\* Point(query): a Point, a (latitude, longitude) pair, or a string
\* "latitude,longitude"; anything else is a ValueError.
ToPoint(query) ==
    CASE query.t = "Point" -> R(query)
      [] query.t = "list" ->
           IF Len(query.l) = 2 /\ \A i \in 1..2 : query.l[i].t = "num"
           THEN R(Point(FromInt(query.l[1].n), FromInt(query.l[2].n)))
           ELSE E("ValueError", Str(<<>>))
      [] query.t = "str" -> PointOf(unpack(floats(split(query.s, ","))))
      [] OTHER -> E("ValueError", Str(<<>>))

\* Geocoder._coerce_point_to_string(point, "%(lon)s,%(lat)s")
format_lon_lat(p) ==
    IF ~p.ok THEN p
    ELSE R(Str(FormatCoordinate(p.v.longitude) \o <<",">>
                 \o FormatCoordinate(p.v.latitude)))
coerce_lon_lat(query) == format_lon_lat(ToPoint(query))

\* Geocoder._call_geocoder(url, timeout=timeout): the request handed to the
\* transport, under the call's timeout or else the instance's. The call then
\* waits for what the transport answers; the instance is left as it is.
_call_geocoder(slf, url, timeout) ==
    [url |-> url, timeout |-> UnlessSentinel(timeout, slf.timeout)]

\* ---------------------------------------------------------------- Yandex
\* Yandex.__init__; api_path is '/1.x/' and the domain 'geocode-maps.yandex.ru'
YandexInit(a) ==
    LET base == GeocoderInit(a) IN
    [api_key |-> a.api_key,
     lang |-> a.lang,
     api |-> Str(base.scheme.s \o <<":", "/", "/">>
                   \o <<"g", "e", "o", "c", "o", "d", "e", "-", "m", "a", "p", "s",
                        ".", "y", "a", "n", "d", "e", "x", ".", "r", "u">>
                   \o <<"/", "1", ".", "x", "/">>),
     format_string |-> base.format_string,
     scheme |-> base.scheme,
     timeout |-> base.timeout,
     proxies |-> base.proxies,
     user_agent |-> base.user_agent,
     ssl_context |-> base.ssl_context]

\* fmt % query, for a template that holds "%s" once
Percent(fmt, query) ==
    LET i == CHOOSE j \in 1..(Len(fmt) - 1) : fmt[j] = "%" /\ fmt[j + 1] = "s" IN
    SubSeq(fmt, 1, i - 1) \o query \o SubSeq(fmt, i + 2, Len(fmt))

IfTruthy(x) == IF Truthy(x) THEN x ELSE Absent

\* "?".join((self.api, urlencode(params))): the address and its parameters,
\* kept apart
Url(api, params) == [api |-> api, params |-> params]

\* Yandex.geocode up to the transport: the request it sends.
geocode_request(slf, query, exactly_one_, timeout) ==
    _call_geocoder(slf,
                   Url(slf.api,
                       [geocode |-> Str(Percent(slf.format_string.s, query.s)),
                        format |-> Str(<<"j", "s", "o", "n">>),
                        apikey |-> IfTruthy(slf.api_key),
                        lang |-> IfTruthy(slf.lang),
                        results |-> IF exactly_one_ THEN Num(1) ELSE Absent,
                        kind |-> Absent]),
                   timeout)

\* return self._parse_json(self._call_geocoder(...), exactly_one): reply is
\* what the transport answers, a document or a failure, which is raised on.
parse_reply(reply, exactly_one_) ==
    IF reply.ok THEN _parse_json(reply.v, exactly_one_) ELSE reply

\* Yandex.geocode, the whole call: the instance afterwards, the requests
\* sent, the outcome.
geocode_keeps_timeout(slf, query, exactly_one_, timeout, reply) ==
    [self |-> [slf EXCEPT !.timeout =
                   geocode_request(slf, query, exactly_one_, timeout).timeout],
     requests |-> <<geocode_request(slf, query, exactly_one_, timeout)>>,
     result |-> parse_reply(reply, exactly_one_)]

geocode(slf, query, exactly_one_, timeout, reply) ==
    [self |-> slf,
     requests |-> <<geocode_request(slf, query, exactly_one_, timeout)>>,
     result |-> parse_reply(reply, exactly_one_)]

\* try: point = self._coerce_point_to_string(query, "%(lon)s,%(lat)s")
\* except ValueError: raise ValueError("Must be a coordinate pair or Point")
\* point is the outcome of the coercion.
reverse_point(point) ==
    IF ~point.ok /\ point.exc = "ValueError"
    THEN E("ValueError", Str(<<"Must be a coordinate pair or Point">>))
    ELSE point

\* Yandex.reverse from the coerced point up to the transport: the request it
\* sends.
reverse_request(slf, point, timeout, kind) ==
    _call_geocoder(slf,
                   Url(slf.api,
                       [geocode |-> point,
                        format |-> Str(<<"j", "s", "o", "n">>),
                        apikey |-> IfTruthy(slf.api_key),
                        lang |-> IfTruthy(slf.lang),
                        results |-> Absent,
                        kind |-> IfTruthy(kind)]),
                   timeout)

\* Yandex.reverse, the whole call, point the outcome of the try statement.
reverse_from(slf, point, exactly_one_, timeout, kind, reply) ==
    IF ~point.ok THEN [self |-> slf, requests |-> <<>>, result |-> point]
    ELSE [self |-> slf,
          requests |-> <<reverse_request(slf, point.v, timeout, kind)>>,
          result |-> parse_reply(reply, exactly_one_)]

reverse(slf, query, exactly_one_, timeout, kind, reply) ==
    reverse_from(slf, reverse_point(coerce_lon_lat(query)), exactly_one_,
                 timeout, kind, reply)

\* ---------------------------------------------------- GeocodeEarth
\* Pelias.__init__: the base settings, the key and the domain.
PeliasInit(a) ==
    LET base == GeocoderInit(a) IN
    [api_key |-> a.api_key,
     domain |-> a.domain,
     format_string |-> base.format_string,
     scheme |-> base.scheme,
     timeout |-> base.timeout,
     proxies |-> base.proxies,
     user_agent |-> base.user_agent,
     ssl_context |-> base.ssl_context]

\* An argument the caller did not pass.
Omitted == [t |-> "omitted"]
EarthDomain == Str(<<"a", "p", "i", ".", "g", "e", "o", "c", "o", "d", "e",
                     ".", "e", "a", "r", "t", "h">>)

\* GeocodeEarth.__init__: super().__init__ with every argument by keyword.
GeocodeEarthInit_loses_scheme(a) ==
    PeliasInit([api_key |-> a.api_key,
                format_string |-> a.format_string,
                domain |-> IF a.domain = Omitted THEN EarthDomain ELSE a.domain,
                timeout |-> a.timeout,
                proxies |-> a.proxies,
                user_agent |-> a.user_agent,
                scheme |-> None,
                ssl_context |-> a.ssl_context])

GeocodeEarthInit(a) ==
    PeliasInit([api_key |-> a.api_key,
                format_string |-> a.format_string,
                domain |-> IF a.domain = Omitted THEN EarthDomain ELSE a.domain,
                timeout |-> a.timeout,
                proxies |-> a.proxies,
                user_agent |-> a.user_agent,
                scheme |-> a.scheme,
                ssl_context |-> a.ssl_context])

\* -------------------------------------------------------- GoogleV3
\* GoogleV3.__init__ as the tests fix it: a client_id without a secret_key,
\* or a secret_key without a client_id, is a ConfigurationError; with both
\* the instance is premier; without a key and not premier it warns.
GoogleV3Init(a) ==
    IF Truthy(a.client_id) /\ ~Truthy(a.secret_key)
    THEN E("ConfigurationError", Str(<<"Must provide secret_key with client_id.">>))
    ELSE IF Truthy(a.secret_key) /\ ~Truthy(a.client_id)
    THEN E("ConfigurationError", Str(<<"Must provide client_id with secret_key.">>))
    ELSE R([api_key |-> a.api_key,
            premier |-> Truthy(a.client_id) /\ Truthy(a.secret_key),
            client_id |-> a.client_id,
            secret_key |-> a.secret_key,
            channel |-> a.channel,
            domain |-> a.domain,
            headers |-> [User_Agent |-> OrDefault(a.user_agent, options.default_user_agent)],
            warnings |-> IF ~Truthy(a.api_key)
                            /\ ~(Truthy(a.client_id) /\ Truthy(a.secret_key))
                         THEN 1 ELSE 0])

\* ---------------------------------------------------------------- state
VARIABLES
    pc,           \* "start" before the first call under study, "done" after one
    ctor,         \* the arguments the adapter was constructed with
    self,         \* the adapter instance (its stored configuration)
    inflight,     \* the calls that wait for the transport, a bag: each call
                  \* with the request it sent
    call,         \* the last call that ended: its operation and arguments
    requests,     \* the requests the last call that ended had sent
    doc,          \* the response document the last call that ended parsed
    exactly_one,  \* the exactly_one argument of the last call that ended
    result,       \* its outcome: R(value) or E(exception, detail)
    overridden    \* whether a call that ended before it passed its own timeout

vars == <<pc, ctor, self, inflight, call, requests, doc, exactly_one, result, overridden>>

NoCall == [op |-> "none", query |-> None, timeout |-> DEFAULT_SENTINEL, kind |-> None]

\* ------------------------------------ _parse_json as a pure function
InitParse ==
    /\ pc = "start"
    /\ doc \in Docs
    /\ exactly_one \in BOOLEAN
    /\ result = R(None)
    /\ ctor = None
    /\ self = None
    /\ inflight = EmptyBag
    /\ call = NoCall
    /\ requests = <<>>
    /\ overridden = FALSE

ParseJson ==
    /\ pc = "start"
    /\ pc' = "done"
    /\ result' = _parse_json(doc, exactly_one)
    /\ call' = [NoCall EXCEPT !.op = "_parse_json"]
    /\ UNCHANGED <<ctor, self, inflight, requests, doc, exactly_one, overridden>>

NextParse == ParseJson

SpecParse == InitParse /\ [][NextParse]_vars

\* ------------------------------------------------- a Yandex instance in use
YandexDefaults ==
    [api_key |-> None, lang |-> None, timeout |-> DEFAULT_SENTINEL,
     proxies |-> DEFAULT_SENTINEL, user_agent |-> None, scheme |-> None,
     format_string |-> None, ssl_context |-> DEFAULT_SENTINEL]
YandexArgs ==
    { YandexDefaults,
      [YandexDefaults EXCEPT !.api_key = Str(<<"k", "e", "y">>),
                             !.lang = Str(<<"e", "n", "_", "U", "S">>),
                             !.timeout = Num(2)],
      [YandexDefaults EXCEPT !.scheme = Str(<<"h", "t", "t", "p">>),
                             !.format_string = Str(<<"%", "s", ",", " ", "R", "U">>)],
      [YandexDefaults EXCEPT !.api_key = Finite(1, <<>>, 0),
                             !.lang = Bool(FALSE)] }

\* The calls made: geocode of an address in either mode, with and without a
\* timeout of its own; reverse of a Point, a pair, a string "lat,lon" and a
\* string that is no coordinate, and of a Point with a kind and a timeout.
GeocodeCalls ==
    { [op |-> "geocode", query |-> Str(<<"M">>), exactly_one |-> eo,
       timeout |-> t, kind |-> None] :
        eo \in BOOLEAN, t \in {DEFAULT_SENTINEL, Num(5)} }
ReverseCalls ==
    { [op |-> "reverse", query |-> q, exactly_one |-> TRUE,
       timeout |-> DEFAULT_SENTINEL, kind |-> None] :
        q \in { Point(FromInt(1), FromInt(2)), List(<<Num(1), Num(2)>>),
                Str(<<"1", "2", ",", "1">>), Str(<<"a", "b", "c">>) } }
    \cup
    { [op |-> "reverse", query |-> Point(FromInt(1), FromInt(2)),
       exactly_one |-> FALSE, timeout |-> Num(5), kind |-> k] :
        k \in {Str(<<"h", "o", "u", "s", "e">>), Finite(-1, <<>>, 0)} }

\* What the transport may answer: a document, or a classified failure.
Replies ==
    { R(Doc(Absent, WithPlaces(List(<<Entry(GeoObject(Point_(Pos12), NameN, DescD)),
                                      Entry(GeoObject(Point_(Pos21), Absent, Absent))>>)))),
      R(Doc(Absent, WithPlaces(List(<<>>)))),
      R(Doc(Absent, Response(Absent))),
      R(Doc(ErrorObj(BadKey, Absent), Absent)),
      R(Doc(ErrorObj(Absent, Num(401)), Absent)),
      E("GeocoderTimedOut", Str(<<>>)) }

Init ==
    /\ pc = "start"
    /\ ctor \in YandexArgs
    /\ self = YandexInit(ctor)
    /\ inflight = EmptyBag
    /\ call = NoCall
    /\ requests = <<>>
    /\ doc = Absent
    /\ exactly_one = TRUE
    /\ result = R(None)
    /\ overridden = FALSE

\* A caller enters geocode: the request is built from the instance and handed
\* to the transport, where the call waits while other callers go on.
Geocode ==
    \E c \in GeocodeCalls :
        /\ BagCardinality(inflight) < MaxInFlight
        /\ inflight' = inflight (+) SetToBag(
               {[call |-> c,
                 request |-> geocode_request(self, c.query, c.exactly_one, c.timeout)]})
        /\ UNCHANGED <<pc, ctor, self, call, requests, doc, exactly_one, result,
                       overridden>>

\* A caller enters reverse: a query that is no coordinate ends the call at
\* once, with no request; otherwise the request is built and handed to the
\* transport, where the call waits.
Reverse ==
    \E c \in ReverseCalls :
        \E point \in {reverse_point(coerce_lon_lat(c.query))} :
            IF point.ok
            THEN /\ BagCardinality(inflight) < MaxInFlight
                 /\ inflight' = inflight (+) SetToBag(
                        {[call |-> c,
                          request |-> reverse_request(self, point.v, c.timeout, c.kind)]})
                 /\ UNCHANGED <<pc, ctor, self, call, requests, doc, exactly_one,
                                result, overridden>>
            ELSE /\ pc' = "done"
                 /\ result' = point
                 /\ requests' = <<>>
                 /\ call' = [op |-> c.op, query |-> c.query, timeout |-> c.timeout,
                             kind |-> c.kind]
                 /\ doc' = Absent
                 /\ exactly_one' = c.exactly_one
                 /\ overridden' = (overridden \/ call.timeout # DEFAULT_SENTINEL)
                 /\ UNCHANGED <<ctor, self, inflight>>

\* The transport answers a call that waits, with a document or a failure:
\* the call goes on from _call_geocoder to its end.
Return ==
    \E f \in BagToSet(inflight), reply \in Replies :
        \E r \in {IF f.call.op = "geocode"
                  THEN geocode(self, f.call.query, f.call.exactly_one,
                               f.call.timeout, reply)
                  ELSE reverse(self, f.call.query, f.call.exactly_one,
                               f.call.timeout, f.call.kind, reply)} :
            /\ inflight' = inflight (-) SetToBag({f})
            /\ pc' = "done"
            /\ self' = r.self
            /\ requests' = <<f.request>>
            /\ result' = r.result
            /\ call' = [op |-> f.call.op, query |-> f.call.query,
                        timeout |-> f.call.timeout, kind |-> f.call.kind]
            /\ doc' = IF reply.ok THEN reply.v ELSE Absent
            /\ exactly_one' = f.call.exactly_one
            /\ overridden' = (overridden \/ call.timeout # DEFAULT_SENTINEL)
            /\ UNCHANGED ctor

Next == Geocode \/ Reverse \/ Return

Spec == Init /\ [][Next]_vars

\* ------------------------------------------- constructing a GeocodeEarth
Proxies == Obj([http |-> Str(<<"p">>)])
SSLContext == [t |-> "SSLContext"]
EarthArgs ==
    [api_key : {Str(<<"k", "e", "y">>), None},
     format_string : {None, Str(<<"%", "s", ",", " ", "R", "U">>)},
     domain : {Omitted, EarthDomain, Str(<<"l", "o", "c", "a", "l">>)},
     timeout : {DEFAULT_SENTINEL, Num(2)},
     proxies : {DEFAULT_SENTINEL, Proxies},
     user_agent : {None, Str(<<"u", "a">>)},
     scheme : {None, Str(<<"h", "t", "t", "p">>)},
     ssl_context : {DEFAULT_SENTINEL, SSLContext}]

InitEarth ==
    /\ pc = "start"
    /\ ctor \in EarthArgs
    /\ self = None
    /\ inflight = EmptyBag
    /\ call = NoCall
    /\ requests = <<>>
    /\ doc = Absent
    /\ exactly_one = TRUE
    /\ result = R(None)
    /\ overridden = FALSE

ConstructGeocodeEarth ==
    /\ pc = "start"
    /\ pc' = "done"
    /\ self' = GeocodeEarthInit(ctor)
    /\ result' = R(None)
    /\ call' = [NoCall EXCEPT !.op = "GeocodeEarth"]
    /\ UNCHANGED <<ctor, inflight, requests, doc, exactly_one, overridden>>

NextEarth == ConstructGeocodeEarth

SpecEarth == InitEarth /\ [][NextEarth]_vars

\* ----------------------------------------------- constructing a GoogleV3
GoogleArgs ==
    [api_key : {None, Str(<<"m", "o", "c", "k">>)},
     client_id : {None, Str(<<"a">>)},
     secret_key : {None, Str(<<"a">>)},
     channel : {Str(<<>>), Str(<<"m", "y", "_", "c", "h", "a", "n", "n", "e", "l">>)},
     user_agent : {None, Str(<<"u", "a">>)},
     domain : {Str(<<"m", "a", "p", "s">>), Str(<<"l", "o", "c", "a", "l">>)},
     scheme : {None, Str(<<"h", "t", "t", "p">>)}]

InitGoogle ==
    /\ pc = "start"
    /\ ctor \in GoogleArgs
    /\ self = None
    /\ inflight = EmptyBag
    /\ call = NoCall
    /\ requests = <<>>
    /\ doc = Absent
    /\ exactly_one = TRUE
    /\ result = R(None)
    /\ overridden = FALSE

\* GoogleV3(**ctor): the instance, or none when the constructor raises.
ConstructGoogleV3 ==
    /\ pc = "start"
    /\ pc' = "done"
    /\ result' = IF GoogleV3Init(ctor).ok THEN R(None) ELSE GoogleV3Init(ctor)
    /\ self' = IF GoogleV3Init(ctor).ok THEN GoogleV3Init(ctor).v ELSE None
    /\ call' = [NoCall EXCEPT !.op = "GoogleV3"]
    /\ UNCHANGED <<ctor, inflight, requests, doc, exactly_one, overridden>>

NextGoogle == ConstructGoogleV3

SpecGoogle == InitGoogle /\ [][NextGoogle]_vars

\* ------------------------------------------- words the claims are put in
\* The document is a dict that carries no error (doc.get('error') is falsy).
NoError(d) == d.t = "obj" /\ ~Truthy(Get(d, "error").v)

\* The document's error field is a dict that holds a message.
HasErrorMessage(d) ==
    /\ d.t = "obj"
    /\ "error" \in Keys(d)
    /\ d.o["error"].t = "obj"
    /\ "message" \in Keys(d.o["error"])

\* response -> GeoObjectCollection -> featureMember is there, every level a dict.
HasPath(d) ==
    /\ d.t = "obj"
    /\ "response" \in Keys(d)
    /\ d.o["response"].t = "obj"
    /\ "GeoObjectCollection" \in Keys(d.o["response"])
    /\ d.o["response"].o["GeoObjectCollection"].t = "obj"
    /\ "featureMember" \in Keys(d.o["response"].o["GeoObjectCollection"])

FeatureMember(d) == d.o["response"].o["GeoObjectCollection"].o["featureMember"]

\* The results collection is there and is a list.
HasPlaces(d) == NoError(d) /\ HasPath(d) /\ FeatureMember(d).t = "list"

\* A numeric token: a decimal numeral, that is an optional sign, digits
\* with at most one point among them, and an optional exponent.
Decimal(s) ==
    /\ \E i \in 1..Len(s) : s[i] \in DecimalDigits
    /\ \E k \in 0..Len(s) :
          /\ IsDigits(SubSeq(s, 1, k))
          /\ k = Len(s) \/ (s[k + 1] = "." /\ IsDigits(SubSeq(s, k + 2, Len(s))))
Exponent(s) ==
    \/ Len(s) > 0 /\ IsDigits(s)
    \/ Len(s) > 1 /\ s[1] \in {"+", "-"} /\ IsDigits(Tail(s))
Unsigned(s) ==
    \/ Decimal(s)
    \/ \E k \in 2..(Len(s) - 1) :
          /\ s[k] \in {"e", "E"}
          /\ Decimal(SubSeq(s, 1, k - 1))
          /\ Exponent(SubSeq(s, k + 1, Len(s)))
Numeral(s) ==
    \/ Unsigned(s)
    \/ Len(s) > 1 /\ s[1] \in {"+", "-"} /\ Unsigned(Tail(s))

\* A token that spells a number although it is no plain numeral: blanks
\* around it, underscores between its digits, digits of other scripts.
Grouped(s) ==
    /\ \A i \in 1..Len(s) :
          s[i] = "_" =>
              (i > 1 /\ i < Len(s) /\ s[i - 1] \in DecimalDigits
                 /\ s[i + 1] \in DecimalDigits)
    /\ Numeral(SelectSeq(s, LAMBDA c : c # "_"))
SpellsNumber(tok) == Grouped(ToASCII(strip(tok)))
TwoSpelled(s) ==
    \E i \in 2..(Len(s) - 1) :
        /\ s[i] = " "
        /\ SpellsNumber(SubSeq(s, 1, i - 1))
        /\ SpellsNumber(SubSeq(s, i + 1, Len(s)))

\* s is "a b": two numeric tokens with one blank between them.
TwoNumeric(s) ==
    \E i \in 2..(Len(s) - 1) :
        /\ s[i] = " "
        /\ Numeral(SubSeq(s, 1, i - 1))
        /\ Numeral(SubSeq(s, i + 1, Len(s)))
BlankAt(s) == CHOOSE i \in 1..Len(s) : s[i] = " "
FirstToken(s) == float(SubSeq(s, 1, BlankAt(s) - 1)).v
SecondToken(s) == float(SubSeq(s, BlankAt(s) + 1, Len(s))).v

\* The entry holds GeoObject.Point.pos as a string.
HasPos(e) ==
    /\ e.t = "obj" /\ "GeoObject" \in Keys(e)
    /\ e.o["GeoObject"].t = "obj" /\ "Point" \in Keys(e.o["GeoObject"])
    /\ e.o["GeoObject"].o["Point"].t = "obj"
    /\ "pos" \in Keys(e.o["GeoObject"].o["Point"])
    /\ e.o["GeoObject"].o["Point"].o["pos"].t = "str"
PosOf(e) == e.o["GeoObject"].o["Point"].o["pos"].s

\* name and description are each missing, empty or a string.
LabelsOk(e) ==
    \A k \in {"name", "description"} :
        \/ k \notin Keys(e.o["GeoObject"])
        \/ ~Truthy(e.o["GeoObject"].o[k])
        \/ e.o["GeoObject"].o[k].t = "str"

\* Point.pos is "a b", a and b numerals, and (b, a) is a coordinate.
ValidPos(s) == TwoNumeric(s) /\ Coordinate(SecondToken(s), FirstToken(s))

WellFormed(e) == HasPos(e) /\ ValidPos(PosOf(e)) /\ LabelsOk(e)

NormalizedErrors ==
    { "GeocoderServiceError", "GeocoderParseError", "GeocoderQueryError",
      "GeocoderTimedOut", "GeocoderUnavailable", "GeocoderQuotaExceeded",
      "GeocoderAuthenticationFailure", "GeocoderInsufficientPrivileges",
      "ConfigurationError" }

\* ---------------------------------------------------------------- claims
\* C1: _parse_json with exactly_one=True, on a document whose results
\* collection is a list: an empty list gives None and no error; otherwise the
\* outcome is that of parsing the first entry alone, a Location whose raw
\* payload is that entry's GeoObject when the entry is well formed, whatever
\* the later entries are.
C1_FirstOrNone ==
    (pc = "done" /\ exactly_one /\ HasPlaces(doc)) =>
        LET places == FeatureMember(doc).l IN
        IF Len(places) = 0 THEN result = R(None)
        ELSE /\ result = parse_code(places[1])
             /\ WellFormed(places[1]) =>
                    /\ result.ok
                    /\ result.v.t = "Location"
                    /\ result.v.raw = places[1].o["GeoObject"]

\* C1 witness: the first entry parses although the second one cannot.
C1_Witness ==
    /\ pc = "done" /\ exactly_one /\ HasPlaces(doc)
    /\ Len(FeatureMember(doc).l) >= 2
    /\ WellFormed(FeatureMember(doc).l[1])
    /\ ~WellFormed(FeatureMember(doc).l[2])
    /\ result.ok /\ result.v.t = "Location"

\* C2: _parse_json with exactly_one=False, on a well-formed document with N
\* entries: the result is a list of N Locations, the i-th the parse of the
\* i-th entry; for N = 0 it is the empty list.
C2_AllInOrder ==
    (/\ pc = "done" /\ ~exactly_one /\ HasPlaces(doc)
     /\ \A i \in 1..Len(FeatureMember(doc).l) : WellFormed(FeatureMember(doc).l[i])) =>
        LET places == FeatureMember(doc).l IN
        /\ result.ok
        /\ result.v.t = "list"
        /\ Len(result.v.l) = Len(places)
        /\ \A i \in 1..Len(places) :
              /\ result.v.l[i] = parse_code(places[i]).v
              /\ result.v.l[i].t = "Location"
              /\ result.v.l[i].raw = places[i].o["GeoObject"]

\* C2 witness: two different entries, returned in the order given.
C2_Witness ==
    /\ pc = "done" /\ ~exactly_one /\ HasPlaces(doc)
    /\ Len(FeatureMember(doc).l) >= 2
    /\ \A i \in 1..Len(FeatureMember(doc).l) : WellFormed(FeatureMember(doc).l[i])
    /\ FeatureMember(doc).l[1] # FeatureMember(doc).l[2]
    /\ result.ok /\ Len(result.v.l) = Len(FeatureMember(doc).l)

\* C3: a document that carries an error makes _parse_json raise
\* GeocoderServiceError, in either mode and whatever the rest of the
\* document holds, with the error's message as the detail when it has one.
C3_ErrorFirst ==
    (pc = "done" /\ doc.t = "obj" /\ Truthy(Get(doc, "error").v)) =>
        /\ ~result.ok
        /\ result.exc = "GeocoderServiceError"
        /\ HasErrorMessage(doc) => result.detail = doc.o["error"].o["message"]

\* C3, the part that holds: an error that is a dict with a message raises
\* GeocoderServiceError with that message.
C3_MessageRaised ==
    (pc = "done" /\ HasErrorMessage(doc)) =>
        result = E("GeocoderServiceError", doc.o["error"].o["message"])

\* C5: without an error field, a results path that is missing or of the
\* wrong shape at any level (and a missing or misshapen GeoObject of the
\* entry parsed) raises GeocoderParseError, and an entry without name and
\* description still parses.
C5_PathParseError ==
    (pc = "done" /\ NoError(doc)) =>
        /\ ~HasPath(doc) => (~result.ok /\ result.exc = "GeocoderParseError")
        /\ (HasPlaces(doc) /\ exactly_one /\ Len(FeatureMember(doc).l) > 0) =>
              LET e == FeatureMember(doc).l[1] IN
              /\ (e.t # "obj" \/ "GeoObject" \notin Keys(e)
                    \/ e.o["GeoObject"].t # "obj") =>
                     (~result.ok /\ result.exc = "GeocoderParseError")
              /\ (HasPos(e) /\ ValidPos(PosOf(e))
                    /\ Keys(e.o["GeoObject"]) = {"Point"}) => result.ok

\* C6: every outcome is a result or an error of the normalized taxonomy.
C6_OnlyNormalizedErrors ==
    pc = "done" => (result.ok \/ result.exc \in NormalizedErrors)


\* C4: a reverse query that is no coordinate ends in the normalized query
\* error with no request sent, and a request is only sent with the query
\* coerced to "lon,lat".
C4_QueryErrorBeforeTransport ==
    (pc = "done" /\ call.op = "reverse") =>
        /\ ~ToPoint(call.query).ok =>
              /\ ~result.ok
              /\ result.exc = "GeocoderQueryError"
              /\ requests = <<>>
        /\ requests # <<>> =>
              /\ ToPoint(call.query).ok
              /\ requests[1].url.params.geocode = coerce_lon_lat(call.query).v

\* C4, the part that holds: such a query ends in an error with no request
\* sent, and a request carries the coerced "lon,lat" string.
C4_NoRequestOnBadQuery ==
    (pc = "done" /\ call.op = "reverse") =>
        /\ ~ToPoint(call.query).ok => (~result.ok /\ requests = <<>>)
        /\ requests # <<>> =>
              /\ ToPoint(call.query).ok
              /\ requests[1].url.params.geocode = coerce_lon_lat(call.query).v

\* C8: a GoogleV3 constructed with an API key and a client_id and/or a
\* secret_key raises ConfigurationError and leaves no instance.
C8_KeyWithEnterpriseRejected ==
    (/\ pc = "done" /\ call.op = "GoogleV3" /\ Truthy(ctor.api_key)
     /\ (Truthy(ctor.client_id) \/ Truthy(ctor.secret_key))) =>
        /\ ~result.ok /\ result.exc = "ConfigurationError"
        /\ self = None

\* C9: a GeocodeEarth is the Pelias instance of the same arguments, the
\* domain being the caller's or 'api.geocode.earth'.
C9_EarthIsPelias ==
    (pc = "done" /\ call.op = "GeocodeEarth") =>
        /\ self = PeliasInit([ctor EXCEPT !.domain =
                                IF ctor.domain = Omitted THEN EarthDomain
                                ELSE ctor.domain])
        /\ self.api_key = ctor.api_key
        /\ self.domain \in {ctor.domain, EarthDomain}
        /\ ctor.domain # Omitted => self.domain = ctor.domain

\* C9 witness: constructed without a domain, with every other argument given.
C9_Witness ==
    /\ pc = "done" /\ call.op = "GeocodeEarth"
    /\ ctor.domain = Omitted /\ self.domain = EarthDomain
    /\ ctor.scheme = Str(<<"h", "t", "t", "p">>) /\ self.scheme = ctor.scheme
    /\ ctor.timeout = Num(2) /\ self.timeout = Num(2)
    /\ ctor.proxies = Proxies /\ ctor.ssl_context = SSLContext
    /\ ctor.user_agent # None /\ ctor.format_string # None

\* C10: whatever calls were made and however they overlap, the instance
\* holds what its constructor set, and every request, of a call that waits
\* and of the last that ended, runs under that call's own timeout or else
\* the stored one.
C10_ConfigFrozen ==
    /\ self = YandexInit(ctor)
    /\ requests # <<>> =>
          requests[1].timeout = UnlessSentinel(call.timeout, YandexInit(ctor).timeout)
    /\ \A f \in BagToSet(inflight) :
          f.request.timeout = UnlessSentinel(f.call.timeout, YandexInit(ctor).timeout)

\* C10 witness: a call with its own timeout ended, another with its own
\* timeout still waits, and between them a call without one has run under
\* the stored timeout.
C10_Witness ==
    /\ pc = "done" /\ overridden
    /\ call.timeout = DEFAULT_SENTINEL
    /\ requests # <<>>
    /\ requests[1].timeout = Num(2)
    /\ self.timeout = Num(2)
    /\ \E f \in BagToSet(inflight) :
          f.call.timeout = Num(5) /\ f.request.timeout = Num(5)

====
